---- MODULE Spec2Model ----
(***************************************************************************)
(* A model of src/S3Database.js: a JSON document store layered on an       *)
(* S3-compatible bucket.  The bucket, the table cache and the outcome of   *)
(* the last completed call are the state; every method of the class is one *)
(* action.  JSON.stringify and JSON.parse are modelled on token sequences, *)
(* JavaScript values on tagged records.  calls holds the calls that are    *)
(* suspended at an await, for the specification that runs the methods      *)
(* step by step (SpecAsync).                                               *)
(***************************************************************************)
EXTENDS Integers, Sequences, FiniteSets, Bags, TLC

VARIABLES store, tables, credentials, written, last, calls

vars == <<store, tables, credentials, written, last, calls>>

(***************************************************************************)
(* Bounds of the model.                                                    *)
(***************************************************************************)
\* Timestamps new Date() can return are 1..MaxTime.
MaxTime == 1
\* Numbers a JSON text can hold are 0..MaxNum.
MaxNum == 1

(***************************************************************************)
(* JavaScript values.  Every value is a record of the same shape, so that  *)
(* any two of them can be compared: t is the type tag, n the number (or    *)
(* the boolean as 0/1), s the string, f the object's members in insertion  *)
(* order as <<name, value>> pairs.                                         *)
(***************************************************************************)
JUndef == [t |-> "undefined", n |-> 0, s |-> "", f |-> <<>>]
JNull == [t |-> "null", n |-> 0, s |-> "", f |-> <<>>]
JBool(b) == [t |-> "bool", n |-> IF b THEN 1 ELSE 0, s |-> "", f |-> <<>>]
JNum(n) == [t |-> "num", n |-> n, s |-> "", f |-> <<>>]
JStr(s) == [t |-> "str", n |-> 0, s |-> s, f |-> <<>>]
JObj(f) == [t |-> "obj", n |-> 0, s |-> "", f |-> f]

\* !v
Falsy(v) ==
    \/ v.t \in {"undefined", "null"}
    \/ v.t = "bool" /\ v.n = 0
    \/ v.t = "num" /\ v.n = 0
    \/ v.t = "str" /\ v.s = ""

\* a || b
OrElse(a, b) == IF Falsy(a) THEN b ELSE a

\* name in v, for an object v
HasOwn(v, name) == v.t = "obj" /\ \E i \in 1..Len(v.f) : v.f[i][1] = name

\* v.name: a TypeError on null and undefined, undefined when the member is
\* absent (or v is a primitive), else the member (the last one of that name).
Prop(v, name) ==
    IF v.t \in {"undefined", "null"}
    THEN [err |-> "TypeError", v |-> JUndef]
    ELSE IF ~HasOwn(v, name)
    THEN [err |-> "", v |-> JUndef]
    ELSE LET is == {i \in 1..Len(v.f) : v.f[i][1] = name}
             i == CHOOSE j \in is : \A k \in is : k <= j
         IN [err |-> "", v |-> v.f[i][2]]

(***************************************************************************)
(* JSON.stringify: a value to its text, a sequence of tokens.              *)
(***************************************************************************)
RECURSIVE Stringify(_)
RECURSIVE StringifyMembers(_, _, _)

\* The members of f from i on; a member whose value is undefined is left
\* out.  first: no member has been written yet (no comma needed).
StringifyMembers(f, i, first) ==
    IF i > Len(f) THEN <<>>
    ELSE IF f[i][2].t = "undefined" THEN StringifyMembers(f, i + 1, first)
    ELSE (IF first THEN <<>> ELSE <<",">>)
         \o <<"\"", f[i][1], "\"", ":">> \o Stringify(f[i][2])
         \o StringifyMembers(f, i + 1, FALSE)

Stringify(v) ==
    CASE v.t = "null" -> <<"null">>
      [] v.t = "bool" -> IF v.n = 1 THEN <<"true">> ELSE <<"false">>
      [] v.t = "num" -> <<ToString(v.n)>>
      [] v.t = "str" -> <<"\"", v.s, "\"">>
      [] v.t = "obj" -> <<"{">> \o StringifyMembers(v.f, 1, TRUE) \o <<"}">>

(***************************************************************************)
(* JSON.parse: recursive descent over the tokens.  A parse step returns    *)
(* [ok, v, next]: whether a value starts at the position, the value, and   *)
(* the position after it.                                                  *)
(***************************************************************************)
ParseFail == [ok |-> FALSE, v |-> JUndef, next |-> 0]

IsNumTok(tok) == \E n \in 0..MaxNum : ToString(n) = tok

NumOfTok(tok) == CHOOSE n \in 0..MaxNum : ToString(n) = tok

RECURSIVE ParseValue(_, _)
RECURSIVE ParseMember(_, _, _)

\* A member "name" : value at i, then "," and the next member, or "}".
ParseMember(toks, i, acc) ==
    IF i + 3 > Len(toks) THEN ParseFail
    ELSE IF toks[i] # "\"" \/ toks[i + 2] # "\"" \/ toks[i + 3] # ":" THEN ParseFail
    ELSE LET r == ParseValue(toks, i + 4)
         IN IF ~r.ok \/ r.next > Len(toks) THEN ParseFail
            ELSE LET acc2 == Append(acc, <<toks[i + 1], r.v>>)
                 IN IF toks[r.next] = "}"
                    THEN [ok |-> TRUE, v |-> JObj(acc2), next |-> r.next + 1]
                    ELSE IF toks[r.next] = ","
                    THEN ParseMember(toks, r.next + 1, acc2)
                    ELSE ParseFail

ParseValue(toks, i) ==
    IF i > Len(toks) THEN ParseFail
    ELSE LET tok == toks[i]
         IN CASE tok = "null" -> [ok |-> TRUE, v |-> JNull, next |-> i + 1]
              [] tok = "true" -> [ok |-> TRUE, v |-> JBool(TRUE), next |-> i + 1]
              [] tok = "false" -> [ok |-> TRUE, v |-> JBool(FALSE), next |-> i + 1]
              [] tok = "\"" ->
                    IF i + 2 <= Len(toks) /\ toks[i + 2] = "\""
                    THEN [ok |-> TRUE, v |-> JStr(toks[i + 1]), next |-> i + 3]
                    ELSE ParseFail
              [] tok = "{" ->
                    IF i + 1 <= Len(toks) /\ toks[i + 1] = "}"
                    THEN [ok |-> TRUE, v |-> JObj(<<>>), next |-> i + 2]
                    ELSE ParseMember(toks, i + 1, <<>>)
              [] OTHER ->
                    IF IsNumTok(tok)
                    THEN [ok |-> TRUE, v |-> JNum(NumOfTok(tok)), next |-> i + 1]
                    ELSE ParseFail

\* JSON.parse(text): a SyntaxError unless the text is exactly one value.
Parse(toks) ==
    LET r == ParseValue(toks, 1)
    IN IF r.ok /\ r.next = Len(toks) + 1
       THEN [err |-> "", v |-> r.v]
       ELSE [err |-> "SyntaxError", v |-> JUndef]

(***************************************************************************)
(* Process defaults and the key layout.                                    *)
(***************************************************************************)
s3AccessKeyDB == "minioadmin"
s3SecretKeyDB == "minioadmin"
s3BucketDB == "media"

\* listParams.MaxKeys, the page size of a listing (1000 in the source,
\* scaled down so that a listing of the model's bucket spans several pages).
MaxKeys == 2

\* `${tableName}/_metadata.json`
SentinelKey(tableName) == <<tableName, "_metadata.json">>

\* `pools/${profileId}.json`
PoolKey(profileId) == <<"pools", profileId \o ".json">>

\* new Date().toISOString() at time now
ISOString(now) == "t" \o ToString(now)

\* The body ensureTable writes.
SentinelDoc(tableName, now) ==
    JObj(<< <<"tableName", JStr(tableName)>>, <<"created", JStr(ISOString(now))>> >>)

(***************************************************************************)
(* The inputs the model draws from.                                        *)
(***************************************************************************)
TableNames == {"orders"}

DocKey == <<"orders", "1">>

\* Every key of the bucket, in the order a listing returns them.
KeyOrder == <<DocKey, SentinelKey("orders"), PoolKey("p1")>>

Keys == {KeyOrder[i] : i \in 1..Len(KeyOrder)}

Prefixes == {<<>>, <<"orders">>}

\* put(key, data) is called with these documents.
Docs == {JNull, JStr("a"), JObj(<< <<"id", JNum(1)>>, <<"name", JStr("")>> >>)}

\* profileId arguments: absent, "default", a pool, a pool that never exists.
ProfileIds == {JUndef, JStr("default"), JStr("p1"), JStr("p404")}

\* A backend request succeeds or fails in transit.
Nets == {"ok", "fail"}

Times == 1..MaxTime

\* A truncated object: not JSON.
CorruptBody == <<"{", "\"", "id", "\"", ":">>

\* A member of a pool record: left out, null, empty, or given.
Member(name, kind, given) ==
    CASE kind = "absent" -> <<>>
      [] kind = "null" -> << <<name, JNull>> >>
      [] kind = "empty" -> << <<name, JStr("")>> >>
      [] kind = "given" -> << <<name, JStr(given)>> >>

PoolRecord(b, a, s) ==
    JObj(Member("bucketName", b, "tenant") \o Member("accessKey", a, "ak1")
         \o Member("secretKey", s, "sk1"))

\* Pool records as other writers may have left them: complete, or with one
\* member left out, empty or null, or with no member at all.
PoolRecords ==
    {PoolRecord("given", "given", "given"), PoolRecord("absent", "absent", "absent")}
    \cup {PoolRecord(k, "given", "given") : k \in {"absent", "empty"}}
    \cup {PoolRecord("given", k, "given") : k \in {"absent", "empty"}}
    \cup {PoolRecord("given", "given", k) : k \in {"absent", "empty", "null"}}

PoolBodies == {Stringify(r) : r \in PoolRecords} \cup {Stringify(JNull), CorruptBody}

(***************************************************************************)
(* The bucket: a function from the keys that hold an object to its body.   *)
(* S3Get, S3Put, S3Delete and S3List are what the client's send() of the   *)
(* four commands does to it.                                               *)
(***************************************************************************)
\* GetObjectCommand followed by streamToString: the body, or the error's name.
S3Get(st, key, net) ==
    IF net = "fail" THEN [err |-> "NetworkingError", body |-> <<>>]
    ELSE IF key \notin DOMAIN st THEN [err |-> "NoSuchKey", body |-> <<>>]
    ELSE [err |-> "", body |-> st[key]]

\* PutObjectCommand: the object at key is replaced.
S3Put(st, key, body) ==
    [k \in DOMAIN st \cup {key} |-> IF k = key THEN body ELSE st[k]]

\* DeleteObjectCommand: the object at key is gone (no error if there was none).
S3Delete(st, key) == [k \in DOMAIN st \ {key} |-> st[k]]

IsPrefix(p, k) == Len(p) <= Len(k) /\ SubSeq(k, 1, Len(p)) = p

\* ListObjectsV2 over all pages: the keys under prefix, in listing order.
S3List(st, prefix) ==
    SelectSeq(KeyOrder, LAMBDA k : k \in DOMAIN st /\ IsPrefix(prefix, k))

\* The number of pages the paginator requests for a listing of n keys.
PageCount(n) == IF n = 0 THEN 1 ELSE (n + MaxKeys - 1) \div MaxKeys

\* page.Contents of page number p (from 1) of a listing.
PageOf(listing, p) ==
    SubSeq(listing, (p - 1) * MaxKeys + 1,
           IF p * MaxKeys < Len(listing) THEN p * MaxKeys ELSE Len(listing))

(***************************************************************************)
(* The outcome of a call, as the variable last records it: the method, the *)
(* key or prefix it addressed, its argument, whether the promise resolved  *)
(* ("return", with val) or rejected ("throw"), the name of the error it    *)
(* caught, how the fetch of the object ended, the commands it sent, and    *)
(* for a scan the page whose listing failed (0: none), the keys whose      *)
(* fetch failed and the rows it returned.                                  *)
(***************************************************************************)
Call(op, key, arg) ==
    [op |-> op, key |-> key, arg |-> arg, outcome |-> "return", val |-> JUndef,
     err |-> "", fetch |-> "", gets |-> 0, puts |-> 0, dels |-> 0, lists |-> 0,
     hit |-> FALSE, badPage |-> 0, failed |-> {}, rows |-> <<>>]

Fetched(r) == IF r.err = "" THEN "ok" ELSE r.err

Written(kind, data) == [kind |-> kind, doc |-> data]

\* The callers whose calls may be in progress at the same time.
Procs == {1, 2}

\* A caller's call in progress: pc is the await it is suspended at ("idle":
\* none, and call is then its last completed call), call the outcome so
\* far, body the text it is writing, token the place in the listing its
\* scan has reached, more whether pages remain, contents the page at hand,
\* pos the item of the page at hand, out the keys whose fetch has been
\* issued and not answered, order the keys of the rows pushed, over the
\* callers whose call was in progress when this one began.
Suspended(pc, call) ==
    [pc |-> pc, call |-> call, body |-> <<>>, token |-> 0, more |-> FALSE,
     contents |-> <<>>, pos |-> 0, out |-> {}, order |-> <<>>, over |-> {}]

NoCalls == [p \in Procs |-> Suspended("idle", Call("new", <<>>, JUndef))]

(***************************************************************************)
(* ensureTable(tableName)                                                  *)
(***************************************************************************)
\* ensureTableFetched adding the table to the cache when the write failed.
ensureTableFetchedCaching(st, tbls, tableName, netGet, netPut, now) ==
    LET key == SentinelKey(tableName)
        r == S3Get(st, key, netGet)
        c == [Call("ensureTable", key, JStr(tableName))
                EXCEPT !.fetch = Fetched(r), !.gets = 1]
    IN IF r.err = ""
       THEN [st |-> st, tables |-> tbls \cup {tableName}, wrote |-> FALSE, call |-> c]
       ELSE IF netPut = "fail"
       THEN [st |-> st, tables |-> tbls \cup {tableName}, wrote |-> FALSE,
             call |-> [c EXCEPT !.puts = 1, !.outcome = "throw",
                                !.err = "NetworkingError"]]
       ELSE [st |-> S3Put(st, key, Stringify(SentinelDoc(tableName, now))),
             tables |-> tbls \cup {tableName}, wrote |-> TRUE,
             call |-> [c EXCEPT !.puts = 1, !.err = r.err]]

\* ensureTableFetched caching a table whose sentinel it did not find,
\* without creating it.
ensureTableNoCreate(st, tbls, tableName, netGet, netPut, now) ==
    LET key == SentinelKey(tableName)
        r == S3Get(st, key, netGet)
        c == [Call("ensureTable", key, JStr(tableName))
                EXCEPT !.fetch = Fetched(r), !.gets = 1]
    IN [st |-> st, tables |-> tbls \cup {tableName}, wrote |-> FALSE,
        call |-> [c EXCEPT !.err = r.err]]

\* ensureTableFetched writing the sentinel under another key of the table.
ensureTableWrongKey(st, tbls, tableName, netGet, netPut, now) ==
    LET key == SentinelKey(tableName)
        r == S3Get(st, key, netGet)
        c == [Call("ensureTable", key, JStr(tableName))
                EXCEPT !.fetch = Fetched(r), !.gets = 1]
    IN IF r.err = ""
       THEN [st |-> st, tables |-> tbls \cup {tableName}, wrote |-> FALSE, call |-> c]
       ELSE IF netPut = "fail"
       THEN [st |-> st, tables |-> tbls, wrote |-> FALSE,
             call |-> [c EXCEPT !.puts = 1, !.outcome = "throw",
                                !.err = "NetworkingError"]]
       ELSE [st |-> S3Put(st, <<tableName, "1">>,
                          Stringify(SentinelDoc(tableName, now))),
             tables |-> tbls \cup {tableName}, wrote |-> TRUE,
             call |-> [c EXCEPT !.puts = 1, !.err = r.err]]

\* The result of the call with the sentinel fetched: any error of the fetch
\* leads to the write of a new sentinel; an error of the write is rethrown.
ensureTableFetched(st, tbls, tableName, netGet, netPut, now) ==
    LET key == SentinelKey(tableName)
        r == S3Get(st, key, netGet)
        c == [Call("ensureTable", key, JStr(tableName))
                EXCEPT !.fetch = Fetched(r), !.gets = 1]
    IN IF r.err = ""
       THEN [st |-> st, tables |-> tbls \cup {tableName}, wrote |-> FALSE, call |-> c]
       ELSE IF netPut = "fail"
       THEN [st |-> st, tables |-> tbls, wrote |-> FALSE,
             call |-> [c EXCEPT !.puts = 1, !.outcome = "throw",
                                !.err = "NetworkingError"]]
       ELSE [st |-> S3Put(st, key, Stringify(SentinelDoc(tableName, now))),
             tables |-> tbls \cup {tableName}, wrote |-> TRUE,
             call |-> [c EXCEPT !.puts = 1, !.err = r.err]]

\* ensureTableCall without the look into the cache.
ensureTableUncached(st, tbls, tableName, netGet, netPut, now) ==
    ensureTableFetched(st, tbls, tableName, netGet, netPut, now)

\* The whole call: nothing is done for a table of the cache.
ensureTableCall(st, tbls, tableName, netGet, netPut, now) ==
    IF tableName \in tbls
    THEN [st |-> st, tables |-> tbls, wrote |-> FALSE,
          call |-> [Call("ensureTable", SentinelKey(tableName), JStr(tableName))
                      EXCEPT !.hit = TRUE]]
    ELSE ensureTableFetched(st, tbls, tableName, netGet, netPut, now)

ensureTable(tableName, netGet, netPut, now) ==
    LET e == ensureTableCall(store, tables, tableName, netGet, netPut, now)
    IN /\ store' = e.st
       /\ tables' = e.tables
       /\ written' = IF e.wrote
                     THEN [written EXCEPT ![SentinelKey(tableName)] =
                                              Written("ensure", JUndef)]
                     ELSE written
       /\ last' = e.call
       /\ UNCHANGED <<credentials, calls>>

(***************************************************************************)
(* get(key)                                                                *)
(***************************************************************************)
\* The inner try: fetch and parse; NoSuchKey gives null, any other error is
\* thrown on.
getInner(st, key, net) ==
    LET r == S3Get(st, key, net)
        p == Parse(r.body)
        err == IF r.err # "" THEN r.err ELSE p.err
        c == [Call("get", key, JUndef) EXCEPT !.fetch = Fetched(r), !.gets = 1,
                                               !.err = err]
    IN IF err = "" THEN [c EXCEPT !.val = p.v]
       ELSE IF err = "NoSuchKey" THEN [c EXCEPT !.val = JNull]
       ELSE [c EXCEPT !.outcome = "throw"]

\* The outer catch: whatever the inner try threw is logged, null is returned.
getOuter(c) ==
    IF c.outcome = "throw" THEN [c EXCEPT !.outcome = "return", !.val = JNull] ELSE c

getCall(st, key, net) == getOuter(getInner(st, key, net))

get(key, net) ==
    /\ last' = getCall(store, key, net)
    /\ UNCHANGED <<store, tables, credentials, written, calls>>

(***************************************************************************)
(* put(key, data) and delete(key)                                          *)
(***************************************************************************)
\* putCall logging a failed write and returning.
putCallSwallowed(st, key, data, net) ==
    LET c == [Call("put", key, data) EXCEPT !.puts = 1]
    IN IF net = "fail"
       THEN [st |-> st, call |-> [c EXCEPT !.err = "NetworkingError"]]
       ELSE [st |-> S3Put(st, key, Stringify(data)), call |-> c]

\* putCall leaving an object that is already there.
putCallIfAbsent(st, key, data, net) ==
    LET c == [Call("put", key, data) EXCEPT !.puts = 1]
    IN IF net = "fail"
       THEN [st |-> st, call |-> [c EXCEPT !.outcome = "throw",
                                           !.err = "NetworkingError"]]
       ELSE [st |-> IF key \in DOMAIN st THEN st ELSE S3Put(st, key, Stringify(data)),
             call |-> c]

\* The bucket after the call, and the call: a failed write is rethrown.
putCall(st, key, data, net) ==
    LET c == [Call("put", key, data) EXCEPT !.puts = 1]
    IN IF net = "fail"
       THEN [st |-> st, call |-> [c EXCEPT !.outcome = "throw",
                                           !.err = "NetworkingError"]]
       ELSE [st |-> S3Put(st, key, Stringify(data)), call |-> c]

put(key, data, net) ==
    LET e == putCall(store, key, data, net)
    IN /\ store' = e.st
       /\ written' = IF e.call.outcome = "return"
                     THEN [written EXCEPT ![key] = Written("put", data)]
                     ELSE written
       /\ last' = e.call
       /\ UNCHANGED <<tables, credentials, calls>>

\* deleteCall reporting success without the object removed.
deleteCallKept(st, key, net) ==
    LET c == [Call("delete", key, JUndef) EXCEPT !.dels = 1]
    IN IF net = "fail"
       THEN [st |-> st, call |-> [c EXCEPT !.outcome = "throw",
                                           !.err = "NetworkingError"]]
       ELSE [st |-> st, call |-> c]

deleteCall(st, key, net) ==
    LET c == [Call("delete", key, JUndef) EXCEPT !.dels = 1]
    IN IF net = "fail"
       THEN [st |-> st, call |-> [c EXCEPT !.outcome = "throw",
                                           !.err = "NetworkingError"]]
       ELSE [st |-> S3Delete(st, key), call |-> c]

delete(key, net) ==
    LET e == deleteCall(store, key, net)
    IN /\ store' = e.st
       /\ written' = IF e.call.outcome = "return"
                     THEN [written EXCEPT ![key] = Written("delete", JUndef)]
                     ELSE written
       /\ last' = e.call
       /\ UNCHANGED <<tables, credentials, calls>>

(***************************************************************************)
(* getS3Data(prefix) and getS3DataWithKey(prefix).  failPage is the page   *)
(* whose listing request fails (0: none), failed the keys whose fetch      *)
(* fails in transit.                                                       *)
(***************************************************************************)
\* One pass of the loop body of getS3Data: the row pushed, if any.
dataRow(st, key, net) ==
    LET r == S3Get(st, key, net)
        p == Parse(r.body)
    IN IF r.err = "" /\ p.err = "" THEN <<p.v>> ELSE <<>>

RECURSIVE dataRows(_, _, _, _)
\* for (const obj of page.Contents), from item i on
dataRows(st, contents, i, failed) ==
    IF i > Len(contents) THEN <<>>
    ELSE dataRow(st, contents[i], IF contents[i] \in failed THEN "fail" ELSE "ok")
         \o dataRows(st, contents, i + 1, failed)

\* dataPages reading the first page only.
dataFirstPage(st, listing, p, failPage, failed, c) ==
    IF failPage = 1
    THEN [c EXCEPT !.lists = 1, !.outcome = "throw", !.err = "NetworkingError"]
    ELSE [c EXCEPT !.lists = 1, !.gets = Len(PageOf(listing, 1)),
                   !.rows = dataRows(st, PageOf(listing, 1), 1, failed)]

RECURSIVE dataPages(_, _, _, _, _, _)
\* for await (const page of paginator), from page p on, rows pushed so far
dataPages(st, listing, p, failPage, failed, c) ==
    IF p > PageCount(Len(listing)) THEN c
    ELSE IF p = failPage
    THEN [c EXCEPT !.lists = p, !.outcome = "throw", !.err = "NetworkingError",
                   !.rows = <<>>]
    ELSE dataPages(st, listing, p + 1, failPage, failed,
                   [c EXCEPT !.lists = p, !.gets = @ + Len(PageOf(listing, p)),
                             !.rows = @ \o dataRows(st, PageOf(listing, p), 1, failed)])

getS3DataCall(st, prefix, failPage, failed) ==
    dataPages(st, S3List(st, prefix), 1, failPage, failed,
              [Call("getS3Data", prefix, JUndef)
                 EXCEPT !.badPage = failPage, !.failed = failed])

getS3Data(prefix, failPage, failed) ==
    /\ last' = getS3DataCall(store, prefix, failPage, failed)
    /\ UNCHANGED <<store, tables, credentials, written, calls>>

\* keyedRow with the key cut to its last segment.
keyedRowBare(st, key, net) ==
    LET r == S3Get(st, key, net)
        p == Parse(r.body)
    IN IF r.err = "" /\ p.err = ""
       THEN <<[key |-> <<key[Len(key)]>>, data |-> p.v]>>
       ELSE <<>>

\* One pass of the loop body of getS3DataWithKey: the row pushed, if any.
keyedRow(st, key, net) ==
    LET r == S3Get(st, key, net)
        p == Parse(r.body)
    IN IF r.err = "" /\ p.err = "" THEN <<[key |-> key, data |-> p.v]>> ELSE <<>>

RECURSIVE keyedRows(_, _, _, _)
keyedRows(st, contents, i, failed) ==
    IF i > Len(contents) THEN <<>>
    ELSE keyedRow(st, contents[i], IF contents[i] \in failed THEN "fail" ELSE "ok")
         \o keyedRows(st, contents, i + 1, failed)

RECURSIVE keyedPagesPartial(_, _, _, _, _, _)
\* keyedPages returning the rows pushed so far when a listing fails.
keyedPagesPartial(st, listing, p, failPage, failed, c) ==
    IF p > PageCount(Len(listing)) THEN c
    ELSE IF p = failPage
    THEN [c EXCEPT !.lists = p, !.err = "NetworkingError"]
    ELSE keyedPagesPartial(st, listing, p + 1, failPage, failed,
                    [c EXCEPT !.lists = p, !.gets = @ + Len(PageOf(listing, p)),
                              !.rows = @ \o keyedRows(st, PageOf(listing, p), 1, failed)])

RECURSIVE keyedPages(_, _, _, _, _, _)
keyedPages(st, listing, p, failPage, failed, c) ==
    IF p > PageCount(Len(listing)) THEN c
    ELSE IF p = failPage
    THEN [c EXCEPT !.lists = p, !.outcome = "throw", !.err = "NetworkingError",
                   !.rows = <<>>]
    ELSE keyedPages(st, listing, p + 1, failPage, failed,
                    [c EXCEPT !.lists = p, !.gets = @ + Len(PageOf(listing, p)),
                              !.rows = @ \o keyedRows(st, PageOf(listing, p), 1, failed)])

getS3DataWithKeyCall(st, prefix, failPage, failed) ==
    keyedPages(st, S3List(st, prefix), 1, failPage, failed,
               [Call("getS3DataWithKey", prefix, JUndef)
                  EXCEPT !.badPage = failPage, !.failed = failed])

getS3DataWithKey(prefix, failPage, failed) ==
    /\ last' = getS3DataWithKeyCall(store, prefix, failPage, failed)
    /\ UNCHANGED <<store, tables, credentials, written, calls>>

(***************************************************************************)
(* getPoolCredentials(profileId)                                           *)
(***************************************************************************)
\* !profileId || profileId === 'default'
IsDefaultProfile(profileId) == Falsy(profileId) \/ profileId = JStr("default")

\* The default branch: the store's bucket and the client's credentials,
\* read outside any try.
poolDefault(creds, profileId) ==
    LET c == Call("getPoolCredentials", <<>>, profileId)
        a == Prop(creds, "accessKeyId")
        s == Prop(creds, "secretAccessKey")
    IN IF a.err # "" THEN [c EXCEPT !.outcome = "throw", !.err = a.err]
       ELSE [c EXCEPT !.val = JObj(<< <<"bucketName", JStr(s3BucketDB)>>,
                                      <<"accessKey", OrElse(a.v, JStr(s3AccessKeyDB))>>,
                                      <<"secretKey", OrElse(s.v, JStr(s3SecretKeyDB))>> >>)]

\* poolInvalid without the check of secretKey.
poolInvalidNoSecret(poolData) ==
    \/ Falsy(poolData)
    \/ Falsy(Prop(poolData, "bucketName").v)
    \/ Falsy(Prop(poolData, "accessKey").v)

\* poolInvalid rejecting only the members that are left out.
poolInvalidAbsentOnly(poolData) ==
    \/ Falsy(poolData)
    \/ Prop(poolData, "bucketName").v = JUndef
    \/ Prop(poolData, "accessKey").v = JUndef
    \/ Prop(poolData, "secretKey").v = JUndef

\* !poolData || !poolData.bucketName || !poolData.accessKey || !poolData.secretKey
poolInvalid(poolData) ==
    \/ Falsy(poolData)
    \/ Falsy(Prop(poolData, "bucketName").v)
    \/ Falsy(Prop(poolData, "accessKey").v)
    \/ Falsy(Prop(poolData, "secretKey").v)

\* The record returned for a pool record that passed the check.
poolRecord(poolData) ==
    JObj(<< <<"bucketName", OrElse(Prop(poolData, "bucketName").v, JStr(s3BucketDB))>>,
            <<"accessKey", OrElse(Prop(poolData, "accessKey").v, JStr(s3AccessKeyDB))>>,
            <<"secretKey", OrElse(Prop(poolData, "secretKey").v, JStr(s3SecretKeyDB))>> >>)

\* The inner try: fetch, parse, check.  A falsy poolData takes the logging
\* branch that reads its members, which throws a TypeError on null.
poolInner(st, profileId, net) ==
    LET key == PoolKey(profileId.s)
        r == S3Get(st, key, net)
        p == Parse(r.body)
        c == [Call("getPoolCredentials", key, profileId)
                EXCEPT !.fetch = Fetched(r), !.gets = 1]
    IN IF r.err = "NoSuchKey" THEN [c EXCEPT !.val = JNull, !.err = r.err]
       ELSE IF r.err # "" THEN [c EXCEPT !.outcome = "throw", !.err = r.err]
       ELSE IF p.err # "" THEN [c EXCEPT !.outcome = "throw", !.err = p.err]
       ELSE IF poolInvalid(p.v)
       THEN IF Falsy(p.v) /\ Prop(p.v, "bucketName").err # ""
            THEN [c EXCEPT !.outcome = "throw", !.err = "TypeError"]
            ELSE [c EXCEPT !.val = JNull]
       ELSE [c EXCEPT !.val = poolRecord(p.v)]

\* poolOuter throwing on what the inner try threw.
poolOuterRethrow(c) == c

\* The outer catch: whatever the inner try threw is logged, null is returned.
poolOuter(c) ==
    IF c.outcome = "throw" THEN [c EXCEPT !.outcome = "return", !.val = JNull] ELSE c

getPoolCredentialsCall(st, creds, profileId, net) ==
    IF IsDefaultProfile(profileId) THEN poolDefault(creds, profileId)
    ELSE poolOuter(poolInner(st, profileId, net))

getPoolCredentials(profileId, net) ==
    /\ last' = getPoolCredentialsCall(store, credentials, profileId, net)
    /\ UNCHANGED <<store, tables, credentials, written, calls>>

(***************************************************************************)
(* The methods await: between the sending of a command and its answer the  *)
(* calls of other callers run.  Below, one action per stretch of a method  *)
(* between two awaits; the command a caller is suspended at takes effect   *)
(* in the bucket in the step that answers it.                              *)
(***************************************************************************)
\* The callers with a call in progress.
Running == {q \in Procs : calls[q].pc # "idle"}

\* p enters a method and runs to its first await: its call overlaps the
\* calls in progress, and no longer p's call before this one.
Begin(p, susp) ==
    [q \in Procs |-> IF q = p THEN [susp EXCEPT !.over = Running \ {p}]
                     ELSE [calls[q] EXCEPT !.over = @ \ {p}]]

\* put up to the await of send: the document is serialized, the command sent.
putStart(p, key, data) ==
    /\ calls[p].pc = "idle"
    /\ calls' = Begin(p, [Suspended("put", [Call("put", key, data) EXCEPT !.puts = 1])
                            EXCEPT !.body = Stringify(data)])
    /\ UNCHANGED <<store, tables, credentials, written, last>>

\* put from the answer of send on.
putSettled(p, net) ==
    /\ calls[p].pc = "put"
    /\ LET c == calls[p].call
           e == putCall(store, c.key, c.arg, net)
       IN /\ store' = e.st
          /\ written' = IF e.call.outcome = "return"
                        THEN [written EXCEPT ![c.key] = Written("put", c.arg)]
                        ELSE written
          /\ last' = e.call
          /\ calls' = [calls EXCEPT ![p].pc = "idle", ![p].call = e.call]
    /\ UNCHANGED <<tables, credentials>>

\* ensureTable up to the await of the fetch; with the table in the cache
\* it returns at once.
ensureTableStart(p, tableName) ==
    /\ calls[p].pc = "idle"
    /\ LET c == Call("ensureTable", SentinelKey(tableName), JStr(tableName))
       IN IF tableName \in tables
          THEN /\ calls' = Begin(p, Suspended("idle", [c EXCEPT !.hit = TRUE]))
               /\ last' = [c EXCEPT !.hit = TRUE]
          ELSE /\ calls' = Begin(p, Suspended("sentinel", [c EXCEPT !.gets = 1]))
               /\ last' = last
    /\ UNCHANGED <<store, tables, credentials, written>>

\* The answer of the fetch of the sentinel: found, the table is cached and
\* the call returns; on any error the sentinel is composed and its write sent.
sentinelFetched(st, tbls, s, netGet, now) ==
    LET r == S3Get(st, s.call.key, netGet)
    IN IF r.err = ""
       THEN [tables |-> tbls \cup {s.call.arg.s},
             susp |-> [s EXCEPT !.pc = "idle", !.call.fetch = "ok"]]
       ELSE [tables |-> tbls,
             susp |-> [s EXCEPT !.pc = "create", !.call.fetch = r.err,
                                !.call.puts = 1,
                                !.body = Stringify(SentinelDoc(s.call.arg.s, now))]]

ensureTableGot(p, netGet, now) ==
    /\ calls[p].pc = "sentinel"
    /\ LET e == sentinelFetched(store, tables, calls[p], netGet, now)
       IN /\ tables' = e.tables
          /\ calls' = [calls EXCEPT ![p] = e.susp]
          /\ last' = IF e.susp.pc = "idle" THEN e.susp.call ELSE last
    /\ UNCHANGED <<store, credentials, written>>

\* sentinelCreated with a write that is refused when the object is there.
sentinelCreatedIfNoneMatch(st, tbls, s, netPut) ==
    IF netPut = "fail"
    THEN [st |-> st, tables |-> tbls, wrote |-> FALSE,
          call |-> [s.call EXCEPT !.outcome = "throw", !.err = "NetworkingError"]]
    ELSE IF s.call.key \in DOMAIN st
    THEN [st |-> st, tables |-> tbls, wrote |-> FALSE,
          call |-> [s.call EXCEPT !.outcome = "throw", !.err = "PreconditionFailed"]]
    ELSE [st |-> S3Put(st, s.call.key, s.body), tables |-> tbls \cup {s.call.arg.s},
          wrote |-> TRUE, call |-> [s.call EXCEPT !.err = s.call.fetch]]

\* The answer of the write of the sentinel: written, the table is cached;
\* failed, the error leaves the call.
sentinelCreated(st, tbls, s, netPut) ==
    IF netPut = "fail"
    THEN [st |-> st, tables |-> tbls, wrote |-> FALSE,
          call |-> [s.call EXCEPT !.outcome = "throw", !.err = "NetworkingError"]]
    ELSE [st |-> S3Put(st, s.call.key, s.body), tables |-> tbls \cup {s.call.arg.s},
          wrote |-> TRUE, call |-> [s.call EXCEPT !.err = s.call.fetch]]

ensureTablePut(p, netPut) ==
    /\ calls[p].pc = "create"
    /\ LET e == sentinelCreated(store, tables, calls[p], netPut)
       IN /\ store' = e.st
          /\ tables' = e.tables
          /\ written' = IF e.wrote
                        THEN [written EXCEPT ![calls[p].call.key] =
                                 Written("ensure", Parse(calls[p].body).v)]
                        ELSE written
          /\ last' = e.call
          /\ calls' = [calls EXCEPT ![p].pc = "idle", ![p].call = e.call]
    /\ UNCHANGED credentials

\* The places in KeyOrder of the keys a listing request with continuation
\* token (the place of the last key returned so far) has still to return.
ListAfter(st, prefix, token) ==
    SelectSeq([i \in 1..Len(KeyOrder) |-> i],
              LAMBDA i : /\ i > token
                         /\ KeyOrder[i] \in DOMAIN st
                         /\ IsPrefix(prefix, KeyOrder[i]))

\* The loop body issuing the fetch of every item left of the page at once.
scanIssueAll(contents, pos) == {contents[i] : i \in pos..Len(contents)}

\* The fetch the loop body issues for item pos of the page.
scanIssue(contents, pos) == {contents[pos]}

\* A scan with no fetch outstanding goes on: to the next item of the page,
\* to the next page, or to its return.
scanResume(s) ==
    IF s.pos < Len(s.contents)
    THEN [s EXCEPT !.pc = "fetch", !.pos = @ + 1,
                   !.out = scanIssue(s.contents, s.pos + 1), !.call.gets = @ + 1]
    ELSE IF s.more THEN [s EXCEPT !.pc = "list"]
    ELSE [s EXCEPT !.pc = "idle"]

\* A scan up to the await of the first page.
scanStart(p, op, prefix) ==
    /\ calls[p].pc = "idle"
    /\ calls' = Begin(p, Suspended("list", Call(op, prefix, JUndef)))
    /\ UNCHANGED <<store, tables, credentials, written, last>>

\* The answer of a listing request: a failure leaves the scan; a page is
\* taken up at its first item.
pageListed(st, s, net) ==
    IF net = "fail"
    THEN [s EXCEPT !.pc = "idle", !.call.lists = @ + 1,
                   !.call.badPage = s.call.lists + 1, !.call.outcome = "throw",
                   !.call.err = "NetworkingError", !.call.rows = <<>>]
    ELSE LET rest == ListAfter(st, s.call.key, s.token)
             page == SubSeq(rest, 1, IF Len(rest) > MaxKeys THEN MaxKeys ELSE Len(rest))
         IN scanResume([s EXCEPT !.call.lists = @ + 1,
                                 !.contents = [i \in 1..Len(page) |-> KeyOrder[page[i]]],
                                 !.pos = 0,
                                 !.more = Len(rest) > MaxKeys,
                                 !.token = IF page = <<>> THEN @ ELSE page[Len(page)]])

scanListed(p, net) ==
    /\ calls[p].pc = "list"
    /\ LET s == pageListed(store, calls[p], net)
       IN /\ calls' = [calls EXCEPT ![p] = s]
          /\ last' = IF s.pc = "idle" THEN s.call ELSE last
    /\ UNCHANGED <<store, tables, credentials, written>>

\* The answer of the fetch of key: the row is pushed, or the failure logged.
objectFetched(st, s, key, net) ==
    LET row == IF s.call.op = "getS3Data" THEN dataRow(st, key, net)
               ELSE keyedRow(st, key, net)
        t == [s EXCEPT !.out = @ \ {key},
                       !.call.rows = @ \o row,
                       !.call.failed = IF net = "fail" THEN @ \cup {key} ELSE @,
                       !.order = IF row = <<>> THEN @ ELSE Append(@, key)]
    IN IF t.out = {} THEN scanResume(t) ELSE t

scanFetched(p, key, net) ==
    /\ calls[p].pc = "fetch"
    /\ key \in calls[p].out
    /\ LET s == objectFetched(store, calls[p], key, net)
       IN /\ calls' = [calls EXCEPT ![p] = s]
          /\ last' = IF s.pc = "idle" THEN s.call ELSE last
    /\ UNCHANGED <<store, tables, credentials, written>>

(***************************************************************************)
(* The specifications.  Spec is the document store: every method, on a     *)
(* bucket that may hold a corrupt document, a sentinel and a pool record   *)
(* at construction.  SpecPool is the credential resolver: the pool record  *)
(* ranges over PoolBodies, the client's credentials over InitCredentials,  *)
(* and the methods are applied to the pool's key.  SpecPuts, SpecTables    *)
(* and SpecScans are two callers whose calls are split at their awaits:    *)
(* two that put, two that ensure a table, one that scans while the other   *)
(* puts.                                                                   *)
(***************************************************************************)
\* A sentinel another instance wrote before this one was constructed.
OldSentinel == Stringify(SentinelDoc("orders", 0))

CompletePool == Stringify(PoolRecord("given", "given", "given"))

\* The bucket with the objects of objs, a set of <<key, body>> pairs.
Bucket(objs) ==
    [k \in {o[1] : o \in objs} |-> (CHOOSE o \in objs : o[1] = k)[2]]

InitObjects ==
    {<<DocKey, CorruptBody>>, <<SentinelKey("orders"), OldSentinel>>,
     <<PoolKey("p1"), CompletePool>>}

\* credentials: accessKey && secretKey ? {...} : undefined
Configured ==
    JObj(<< <<"accessKeyId", JStr("ak0")>>, <<"secretAccessKey", JStr("sk0")>> >>)

\* A credentials provider: a function that closes over the credentials
\* given to the client, and has none of them as a member.
JProvider(creds) == [t |-> "function", n |-> 0, s |-> "", f |-> creds.f]

\* this.s3Client.config.credentials: the value the constructor passed, or
\* the provider function the client made of it.
InitCredentials == {JUndef, Configured, JProvider(JUndef), JProvider(Configured)}

Unwritten(st) ==
    [k \in Keys |-> IF k \in DOMAIN st THEN Written("ext", JUndef)
                    ELSE Written("none", JUndef)]

Init ==
    /\ store \in {Bucket(objs) : objs \in SUBSET InitObjects}
    /\ tables = {}
    /\ credentials = Configured
    /\ written = Unwritten(store)
    /\ last = Call("new", <<>>, JUndef)
    /\ calls = NoCalls

\* At most MaxFaults requests of one scan fail in transit: the listing of
\* one of its pages, the fetches of some of the listed keys.
MaxFaults == 1

ScanFaults(st, prefix) ==
    LET listing == S3List(st, prefix)
        listed == {listing[i] : i \in 1..Len(listing)}
    IN {f \in [page : 0..PageCount(Len(listing)), keys : SUBSET listed] :
          (IF f.page = 0 THEN 0 ELSE 1) + Cardinality(f.keys) <= MaxFaults}

Next ==
    \/ \E t \in TableNames, netGet \in Nets, netPut \in Nets, now \in Times :
          ensureTable(t, netGet, netPut, now)
    \/ \E key \in Keys, net \in Nets : get(key, net)
    \/ \E key \in Keys, data \in Docs, net \in Nets : put(key, data, net)
    \/ \E key \in Keys, net \in Nets : delete(key, net)
    \/ \E prefix \in Prefixes : \E f \in ScanFaults(store, prefix) :
          getS3Data(prefix, f.page, f.keys)
    \/ \E prefix \in Prefixes : \E f \in ScanFaults(store, prefix) :
          getS3DataWithKey(prefix, f.page, f.keys)
    \/ \E profileId \in ProfileIds, net \in Nets : getPoolCredentials(profileId, net)

Spec == Init /\ [][Next]_vars

InitPool ==
    /\ store \in {Bucket({})} \cup {Bucket({<<PoolKey("p1"), b>>}) : b \in PoolBodies}
    /\ tables = {}
    /\ credentials \in InitCredentials
    /\ written = Unwritten(store)
    /\ last = Call("new", <<>>, JUndef)
    /\ calls = NoCalls

NextPool ==
    \/ \E profileId \in ProfileIds, net \in Nets : getPoolCredentials(profileId, net)
    \/ \E data \in PoolRecords, net \in Nets : put(PoolKey("p1"), data, net)
    \/ \E net \in Nets : delete(PoolKey("p1"), net)
    \/ \E net \in Nets : get(PoolKey("p1"), net)

SpecPool == InitPool /\ [][NextPool]_vars

\* The instants two callers may read the clock at.
Stamps == 1..(MaxTime + 1)

InitAsync ==
    /\ store \in {Bucket({}),
                  Bucket({<<DocKey, Stringify(JStr("a"))>>,
                          <<PoolKey("p1"), CompletePool>>})}
    /\ tables = {}
    /\ credentials = Configured
    /\ written = Unwritten(store)
    /\ last = Call("new", <<>>, JUndef)
    /\ calls = NoCalls

\* Two callers that put.
NextPuts ==
    \E p \in Procs :
        \/ \E key \in {DocKey, SentinelKey("orders")}, data \in {JNull, JStr("a")} :
              putStart(p, key, data)
        \/ \E net \in Nets : putSettled(p, net)

SpecPuts == InitAsync /\ [][NextPuts]_vars

\* Two callers that ensure a table.
NextTables ==
    \E p \in Procs :
        \/ \E t \in TableNames : ensureTableStart(p, t)
        \/ \E netGet \in Nets, now \in Stamps : ensureTableGot(p, netGet, now)
        \/ \E netPut \in Nets : ensureTablePut(p, netPut)

SpecTables == InitAsync /\ [][NextTables]_vars

\* A caller that scans the bucket while another puts into it.
NextScans ==
    \/ \E op \in {"getS3Data", "getS3DataWithKey"} : scanStart(1, op, <<>>)
    \/ \E net \in Nets : scanListed(1, net)
    \/ \E key \in Keys, net \in Nets : scanFetched(1, key, net)
    \/ \E data \in {JNull, JStr("a")} : putStart(2, SentinelKey("orders"), data)
    \/ \E net \in Nets : putSettled(2, net)

SpecScans == InitAsync /\ [][NextScans]_vars

(***************************************************************************)
(* Properties of get, put and delete.                                      *)
(***************************************************************************)
\* C1: a get of a key whose last completed write is a put(k, d) returns a
\* value equal to d.
C1_RoundTrip ==
    (last.op = "get" /\ written[last.key].kind = "put")
        => (last.outcome = "return" /\ last.val = written[last.key].doc)

\* C2: a get whose fetch or parse ended with an error other than not-found
\* raises the error: it returns an absent result only on not-found.
C2_AbsentOnlyOnNotFound ==
    (last.op = "get" /\ last.err \notin {"", "NoSuchKey"}) => last.outcome = "throw"

\* C3: a get of a key that was never written, or whose last completed write
\* is a delete, returns an absent result and does not raise.
C3_AbsentKeyReadsAbsent ==
    (last.op = "get" /\ written[last.key].kind \in {"none", "delete"})
        => (last.outcome = "return" /\ last.val = JNull)

\* A get right after the delete of a key that held an object before.
C3_Witness ==
    /\ last.op = "get"
    /\ written[last.key].kind = "delete"
    /\ last.fetch = "NoSuchKey"
    /\ last.val = JNull

\* C14: a put or delete raises exactly when the backend reported an error,
\* and raises that error; a put that returns has stored its document and a
\* delete that returns has left no object at the key, whether or not there
\* was one.
C14_WriteErrorsRaised ==
    last.op \in {"put", "delete"} =>
        /\ last.err # "" <=> last.outcome = "throw"
        /\ last.outcome = "throw" => last.err = "NetworkingError"
        /\ (last.op = "put" /\ last.outcome = "return")
              => (last.key \in DOMAIN store /\ store[last.key] = Stringify(last.arg))
        /\ (last.op = "delete" /\ last.outcome = "return")
              => last.key \notin DOMAIN store

\* A delete that failed, the object still there.
C14_Witness ==
    /\ last.op = "delete"
    /\ last.outcome = "throw"
    /\ last.key \in DOMAIN store

(***************************************************************************)
(* Properties of ensureTable.                                              *)
(***************************************************************************)
\* C15, as claimed: every table of the cache has its sentinel in the bucket.
C15_CachedTableHasSentinel ==
    \A t \in tables : SentinelKey(t) \in DOMAIN store

\* C15, amended: the sentinel of a table of the cache is in the bucket
\* unless the last completed write of its key is a delete.
C15_SentinelGoneOnlyByDelete ==
    \A t \in tables :
        SentinelKey(t) \in DOMAIN store \/ written[SentinelKey(t)].kind = "delete"

\* A cached table, its sentinel there after a later delete of another key.
C15_Witness ==
    /\ "orders" \in tables
    /\ SentinelKey("orders") \in DOMAIN store
    /\ last.op = "delete" /\ last.outcome = "return"

\* An ensureTable whose write of the sentinel failed.
WriteFailed(c) == c.op = "ensureTable" /\ c.puts = 1 /\ c.outcome = "throw"

\* C18: an ensureTable whose write of the sentinel failed raises and leaves
\* the table out of the cache, and the next ensureTable of the table fetches
\* again; a table enters the cache only with an ensureTable that returned
\* after a successful fetch or a write of the sentinel.
C18_FailedWriteNotCached ==
    [][/\ WriteFailed(last') => (last'.arg.s \notin tables' /\ last'.err # "")
       /\ (WriteFailed(last) /\ last'.op = "ensureTable" /\ last'.arg = last.arg)
             => (~last'.hit /\ last'.gets = 1)
       /\ \A t \in tables' \ tables :
             /\ last'.op = "ensureTable" /\ last'.arg = JStr(t)
             /\ last'.outcome = "return"
             /\ last'.fetch = "ok" \/ last'.puts = 1]_vars

\* The write of the sentinel failed after a fetch that found none.
C18_Witness ==
    /\ WriteFailed(last)
    /\ last.fetch = "NoSuchKey"
    /\ last.arg.s \notin tables

\* C4: an ensureTable whose fetch of the sentinel failed with an error other
\* than not-found raises it, writes no sentinel and leaves the table out of
\* the cache.
C4_FetchErrorRethrown ==
    (last.op = "ensureTable" /\ last.fetch = "NetworkingError")
        => (last.outcome = "throw" /\ last.puts = 0 /\ last.arg.s \notin tables)

\* C5: an ensureTable(t) right after an ensureTable(t) that completed finds t
\* in the cache, sends no command, leaves the bucket as it is and completes;
\* the two calls together wrote the sentinel at most once, and the sentinel
\* is there when the first call was the one that initialized the table.
C5_SecondEnsureIsNoop ==
    [][\A t \in TableNames :
          (/\ last.op = "ensureTable" /\ last.arg = JStr(t) /\ last.outcome = "return"
           /\ last'.op = "ensureTable" /\ last'.arg = JStr(t))
          => (/\ last'.outcome = "return"
              /\ last'.hit
              /\ last'.gets = 0 /\ last'.puts = 0
              /\ store' = store
              /\ last.puts + last'.puts <= 1
              /\ (~last.hit => SentinelKey(t) \in DOMAIN store'))]_vars

\* A call served from the cache, for a table whose sentinel this instance
\* wrote and still holds.
C5_Witness ==
    /\ last.op = "ensureTable"
    /\ last.hit
    /\ written[last.key].kind = "ensure"
    /\ last.key \in DOMAIN store

(***************************************************************************)
(* Properties of getPoolCredentials.                                       *)
(***************************************************************************)
RequiredFields == {"bucketName", "accessKey", "secretKey"}

PoolCall == last.op = "getPoolCredentials" /\ ~IsDefaultProfile(last.arg)

\* The pool record as stored: fetched without error and parsed.
StoredPool == Parse(store[last.key]).v

PoolStored ==
    PoolCall /\ last.fetch = "ok" /\ Parse(store[last.key]).err = ""

\* The stored record has no such member, or has it as null.
Lacks(v, name) == ~HasOwn(v, name) \/ Prop(v, name).v = JNull

\* C6: a getPoolCredentials whose fetch failed with an error other than
\* not-found raises it.
C6_FetchErrorRaised ==
    (PoolCall /\ last.fetch = "NetworkingError") => last.outcome = "throw"

\* C7: getPoolCredentials never raises for a stored record; it returns null
\* when the record lacks a required member, and a record it returns has
\* the three members of a stored record that had all three.
C7_NoIncompleteRecord ==
    PoolCall =>
        /\ last.outcome = "return"
        /\ last.val # JNull =>
              /\ PoolStored
              /\ \A name \in RequiredFields :
                    /\ ~Lacks(StoredPool, name)
                    /\ Prop(last.val, name).v = Prop(StoredPool, name).v
        /\ (PoolStored /\ \E name \in RequiredFields : Lacks(StoredPool, name))
              => last.val = JNull

\* A stored record without secretKey, answered with null.
C7_Witness ==
    /\ PoolStored
    /\ StoredPool.t = "obj"
    /\ ~HasOwn(StoredPool, "secretKey")
    /\ HasOwn(StoredPool, "accessKey")
    /\ last.val = JNull

\* The stored record has the three members, none null, one of them falsy.
PresentButFalsy ==
    /\ PoolStored
    /\ \A name \in RequiredFields : ~Lacks(StoredPool, name)
    /\ \E name \in RequiredFields : Falsy(Prop(StoredPool, name).v)

Defaults ==
    [bucketName |-> JStr(s3BucketDB), accessKey |-> JStr(s3AccessKeyDB),
     secretKey |-> JStr(s3SecretKeyDB)]

\* C8, as claimed: for a record with the three members present and one of
\* them falsy a record is returned, the default standing in for the member.
C8_DefaultSubstituted ==
    PresentButFalsy =>
        /\ last.val # JNull
        /\ \A name \in RequiredFields :
              Prop(last.val, name).v = OrElse(Prop(StoredPool, name).v, Defaults[name])

\* C8, amended: for such a record null is returned, and no record that is
\* returned holds a default in place of a stored member.
C8_FalsyRejected ==
    /\ PresentButFalsy => (last.outcome = "return" /\ last.val = JNull)
    /\ (PoolStored /\ last.val # JNull) =>
          \A name \in RequiredFields :
              /\ ~Falsy(Prop(StoredPool, name).v)
              /\ Prop(last.val, name).v = Prop(StoredPool, name).v

\* A stored record with an empty accessKey, answered with null.
C8_Witness ==
    /\ PresentButFalsy
    /\ Prop(StoredPool, "accessKey").v = JStr("")
    /\ last.val = JNull

DefaultCall == last.op = "getPoolCredentials" /\ IsDefaultProfile(last.arg)

\* The member the store was configured with, undefined if with none.
Own(name) == Prop([credentials EXCEPT !.t = "obj"], name).v

\* C11: getPoolCredentials without a profileId or with "default" fetches
\* nothing and returns the store's bucket and the access key and secret key
\* it was configured with, the process defaults when it was configured
\* with none; the result is the same for both arguments.
C11_DefaultCredentials ==
    DefaultCall =>
        /\ last.outcome = "return"
        /\ last.gets = 0
        /\ last.val = JObj(<< <<"bucketName", JStr(s3BucketDB)>>,
                              <<"accessKey", OrElse(Own("accessKeyId"),
                                                    JStr(s3AccessKeyDB))>>,
                              <<"secretKey", OrElse(Own("secretAccessKey"),
                                                    JStr(s3SecretKeyDB))>> >>)

\* C12: getPoolCredentials for a profile whose pool object does not exist
\* returns an absent result and does not raise.
C12_MissingPoolIsAbsent ==
    (PoolCall /\ last.key \notin DOMAIN store)
        => (last.outcome = "return" /\ last.val = JNull)

\* The fetch of the pool of a profile that was never stored, answered with
\* not-found.
C12_Witness ==
    /\ PoolCall
    /\ last.arg = JStr("p404")
    /\ last.fetch = "NoSuchKey"
    /\ last.val = JNull

(***************************************************************************)
(* Properties of the scans.                                                *)
(***************************************************************************)
Scanned == S3List(store, last.key)

\* No listing request of the scan failed.
Listed == last.badPage = 0 \/ last.badPage > PageCount(Len(Scanned))

\* The listed keys whose object was fetched and is JSON.
Readable ==
    {i \in 1..Len(Scanned) :
        Scanned[i] \notin last.failed /\ Parse(store[Scanned[i]]).err = ""}

\* The number of rows equal to v.
Copies(rows, v) == Cardinality({i \in 1..Len(rows) : rows[i] = v})

\* C9: a getS3Data whose listing requests succeed completes and returns one
\* row for every listed object that was fetched and parsed, and no other:
\* the rows are, as a multiset, the parsed documents of those objects.
C9_ScanReturnsValidDocs ==
    (last.op = "getS3Data" /\ Listed) =>
        /\ last.outcome = "return"
        /\ Len(last.rows) = Cardinality(Readable)
        /\ \A i \in Readable :
              LET v == Parse(store[Scanned[i]]).v
              IN Copies(last.rows, v)
                    = Cardinality({j \in Readable : Parse(store[Scanned[j]]).v = v})

\* A scan over two pages that skipped an object and returned a later one.
C9_Witness ==
    /\ last.op = "getS3Data" /\ Listed
    /\ Len(Scanned) > MaxKeys
    /\ \E i, j \in 1..Len(Scanned) : i < j /\ i \notin Readable /\ j \in Readable
    /\ Len(last.rows) >= 1

\* C19: a scan one of whose listing requests failed raises that error and
\* returns no row; a scan whose listing requests succeeded returns, whatever
\* fetches failed.
C19_ListingErrorRaised ==
    last.op \in {"getS3Data", "getS3DataWithKey"} =>
        IF Listed THEN last.outcome = "return"
        ELSE /\ last.outcome = "throw"
             /\ last.err = "NetworkingError"
             /\ last.rows = <<>>

\* The listing of the second page failed after a row of the first page.
C19_Witness ==
    /\ last.op = "getS3DataWithKey"
    /\ last.badPage = 2
    /\ \E i \in Readable : i <= MaxKeys
    /\ last.outcome = "throw"

\* C10: every row of getS3DataWithKey carries the key of a listed object
\* and the parsed body of the object at that key, and no key twice.
C10_RowsCarryTheirKey ==
    last.op = "getS3DataWithKey" =>
        /\ \A i \in 1..Len(last.rows) :
              /\ \E j \in 1..Len(Scanned) : Scanned[j] = last.rows[i].key
              /\ Parse(store[last.rows[i].key]) = [err |-> "", v |-> last.rows[i].data]
        /\ \A i, j \in 1..Len(last.rows) :
              last.rows[i].key = last.rows[j].key => i = j

\* A scan that returned two rows with different documents.
C10_Witness ==
    /\ last.op = "getS3DataWithKey"
    /\ Len(last.rows) >= 2
    /\ last.rows[1].data # last.rows[2].data

(***************************************************************************)
(* The frame of the methods.                                               *)
(***************************************************************************)
Reads == {"get", "getS3Data", "getS3DataWithKey", "getPoolCredentials"}

\* The object at key is the same before and after the step.
Kept(key) ==
    /\ key \in DOMAIN store' <=> key \in DOMAIN store
    /\ key \in DOMAIN store => store'[key] = store[key]

\* C20: get, the scans and getPoolCredentials leave the bucket and the
\* cache as they are; the bucket changes only with put, delete and
\* ensureTable, and with ensureTable(t) only at the key of t's sentinel.
C20_Frame ==
    [][/\ last'.op \in Reads => (store' = store /\ tables' = tables)
       /\ store' # store => last'.op \in {"put", "delete", "ensureTable"}
       /\ last'.op = "ensureTable"
             => \A key \in Keys \ {SentinelKey(last'.arg.s)} : Kept(key)]_vars

\* An ensureTable that wrote the sentinel beside another object.
C20_Witness ==
    /\ last.op = "ensureTable"
    /\ last.puts = 1 /\ last.outcome = "return"
    /\ DocKey \in DOMAIN store

(***************************************************************************)
(* Properties of calls in progress at the same time.                       *)
(***************************************************************************)
\* p's last call was of method op and has completed.
Done(p, op) == calls[p].pc = "idle" /\ calls[p].call.op = op

\* The last calls of the two callers were in progress at the same time.
Overlapped == 2 \in calls[1].over \/ 1 \in calls[2].over

\* Both callers have put to the same key, at the same time, and returned.
PutsRaced ==
    /\ Overlapped
    /\ \A p \in Procs : Done(p, "put") /\ calls[p].call.outcome = "return"
    /\ calls[1].call.key = calls[2].call.key

\* C13: the write of a put replaces the object at its key, whatever is
\* there, and leaves every other key; a put that fails leaves the bucket.
\* After two puts to one key in progress at the same time the object is the
\* document of the put whose write was answered last.
C13_LastPutWins ==
    [][/\ \A p \in Procs :
             (calls[p].pc = "put" /\ calls'[p].pc = "idle") =>
                 LET c == calls'[p].call
                 IN /\ c.outcome = "return"
                         => store' = S3Put(store, c.key, Stringify(c.arg))
                    /\ c.outcome = "throw" => store' = store
       /\ PutsRaced' =>
             /\ last'.op = "put" /\ last'.key = calls'[1].call.key
             /\ store'[last'.key] = Stringify(last'.arg)]_vars

\* Caller 1 put first and was answered last: the object is its document,
\* not the other's.
C13_Witness ==
    /\ PutsRaced
    /\ 1 \in calls[2].over
    /\ calls[1].call.arg # calls[2].call.arg
    /\ last = calls[1].call
    /\ store[last.key] = Stringify(calls[1].call.arg)

\* p's ensureTable(t) found no sentinel and sent a write that the backend
\* did not fail.
Created(p, t) ==
    /\ Done(p, "ensureTable") /\ calls[p].call.arg = JStr(t)
    /\ calls[p].call.fetch = "NoSuchKey"
    /\ calls[p].call.puts = 1
    /\ calls[p].call.err # "NetworkingError"

\* C16: when two ensureTable(t) both found no sentinel and both wrote one,
\* both have returned, t is in the cache, and the sentinel in the bucket is
\* the one written last, by one of the two.
C16_BothCreate ==
    \A t \in TableNames :
        (\A p \in Procs : Created(p, t)) =>
            /\ \A p \in Procs : calls[p].call.outcome = "return"
            /\ t \in tables
            /\ SentinelKey(t) \in DOMAIN store
            /\ written[SentinelKey(t)].kind = "ensure"
            /\ store[SentinelKey(t)] = Stringify(written[SentinelKey(t)].doc)
            /\ \E p \in Procs : /\ last = calls[p].call
                                 /\ store[SentinelKey(t)] = calls[p].body

\* Both wrote, with different time stamps; the sentinel is caller 1's.
C16_Witness ==
    /\ \A p \in Procs : Created(p, "orders")
    /\ Overlapped
    /\ calls[1].body # calls[2].body
    /\ store[SentinelKey("orders")] = calls[1].body

\* The place of a key in the listing order.
KeyIndex(key) == CHOOSE i \in 1..Len(KeyOrder) : KeyOrder[i] = key

\* C17: a scan has at most one fetch issued and not answered, that of the
\* item of the page it is at; the rows it pushes, and returns, are in the
\* order of the listing.
C17_OneFetchAtATime ==
    \A p \in Procs :
        LET s == calls[p]
        IN s.call.op \in {"getS3Data", "getS3DataWithKey"} =>
            /\ Cardinality(s.out) <= 1
            /\ s.out # {} <=> s.pc = "fetch"
            /\ s.pc = "fetch" => s.out = {s.contents[s.pos]}
            /\ \A i, j \in 1..Len(s.order) :
                  i < j => KeyIndex(s.order[i]) < KeyIndex(s.order[j])
            /\ s.call.outcome = "return" =>
                  /\ Len(s.call.rows) = Len(s.order)
                  /\ s.call.op = "getS3DataWithKey" =>
                        \A i \in 1..Len(s.order) : s.call.rows[i].key = s.order[i]

\* A scan of two pages that returned three rows, an object put meanwhile.
C17_Witness ==
    /\ Done(1, "getS3DataWithKey")
    /\ calls[1].call.lists = 2
    /\ Len(calls[1].call.rows) = 3
    /\ Done(2, "put") /\ 1 \in calls[2].over

====
